---- MODULE Spec2Model ----
(***************************************************************************)
(* WhaleWatcher server code: the OCC symbol builder, the Polygon response  *)
(* extractor, the todaysdata upsert and the batch loop over the whales     *)
(* table, as state machines.                                               *)
(*                                                                         *)
(* Python values are tagged records, so that a dict, a number, a string,   *)
(* None and a list stay distinguishable the way the interpreter            *)
(* distinguishes them.  Python strings that the code only passes around    *)
(* are TLA+ strings; strings the code takes apart or builds character by   *)
(* character (dates, option types, symbols) are sequences of one-character *)
(* strings.                                                                *)
(***************************************************************************)
EXTENDS Integers, Sequences, FiniteSets, TLC

VARIABLES
    store,      \* app_tables.todaysdata: the sequence of its rows
    last,       \* the last completed save_option_data_to_table call (log)
    pc,         \* per concurrent caller: where it is inside the upsert
    loc,        \* per concurrent caller: its arguments and locals
    whales,     \* app_tables.whales: the watchlist rows
    idx,        \* get_all_contract_data: index of the next whale
    results,    \* get_all_contract_data: the results list
    bpc,        \* get_all_contract_data: "loop", "done" or "raised"
    rin,        \* extract_option_metrics: the response_data argument
    rout,       \* extract_option_metrics: its outcome
    sin,        \* build_option_symbol: the arguments
    sout        \* build_option_symbol: its outcome

vars == <<store, last, pc, loc, whales, idx, results, bpc, rin, rout, sin, sout>>

Idle == [t |-> "idle"]

(***************************************************************************)
(* Python values                                                           *)
(***************************************************************************)
PyNone == [t |-> "None"]
PyList == [t |-> "list"]
PyBool(b) == [t |-> "bool", b |-> b]
PyNum(n) == [t |-> "num", n |-> n]
PyStr(s) == [t |-> "str", s |-> s]
PyDict(f) == [t |-> "dict", d |-> f]
EmptyDict == PyDict(<<>>)

\* A marker for "this key is not in the dict" when payloads are enumerated.
Absent == [t |-> "absent"]

\* The dict holding keys[i] -> vals[i] for every i whose value is not Absent.
DictOf(keys, vals) ==
    LET present == {i \in 1..Len(keys) : vals[i] # Absent}
    IN  PyDict([k \in {keys[i] : i \in present} |->
                  vals[CHOOSE i \in present : keys[i] = k]])

\* d with key k set to v (d[k] = v).
DictSet(d, k, v) ==
    PyDict([x \in (DOMAIN d.d) \cup {k} |-> IF x = k THEN v ELSE d.d[x]])

HasKey(d, k) == d.t = "dict" /\ k \in DOMAIN d.d

\* Outcomes of an expression: a value, or a raised exception.
Val(v) == [ok |-> TRUE, v |-> v]
Raise(exc, msg) == [ok |-> FALSE, exc |-> exc, msg |-> msg]

\* x.get(k, default): only a dict has .get; anything else raises AttributeError.
PyGet(x, k, default) ==
    IF x.t = "dict"
    THEN Val(IF k \in DOMAIN x.d THEN x.d[k] ELSE default)
    ELSE Raise("AttributeError", "object has no attribute 'get'")

\* x[k] for a string key k: KeyError on a dict without k, TypeError on
\* None, a list, a string, a number.
PySubscript(x, k) ==
    IF x.t = "dict"
    THEN IF k \in DOMAIN x.d THEN Val(x.d[k])
         ELSE Raise("KeyError", "'" \o k \o "'")
    ELSE Raise("TypeError", "not subscriptable by a string key")

\* bool(x)
Truthy(x) ==
    CASE x.t = "bool" -> x.b
      [] x.t = "num"  -> x.n # 0
      [] x.t = "str"  -> x.s # ""
      [] x.t = "dict" -> DOMAIN x.d # {}
      [] OTHER        -> FALSE

(***************************************************************************)
(* fetchData.extract_option_metrics                                        *)
(***************************************************************************)
\* A function's outcome: it returned a value, or an exception left it.
Returned(v) == [kind |-> "return", value |-> v]
Raised(exc) == [kind |-> "raise", exc |-> exc]

ParseErrorPrefix == "Error parsing response: "

\* The except (KeyError, TypeError) clause: those two become a failure dict,
\* every other exception propagates to the caller.
ExceptKeyOrTypeError(e) ==
    IF e.exc \in {"KeyError", "TypeError"}
    THEN Returned(DictOf(<<"success", "error">>,
                         <<PyBool(FALSE), PyStr(ParseErrorPrefix \o e.msg)>>))
    ELSE Raised(e.exc)

\* The defaults of the .get calls: 0 for a number, "" for a string.
DefaultNumberNone == PyNone
DefaultNumber == PyNum(0)
DefaultString == PyStr("")

MetricKeys ==
    <<"success", "symbol", "volume", "open_interest", "contract_type",
      "strike_price", "expiration_date", "delta", "gamma", "theta", "vega",
      "implied_volatility", "underlying_ticker", "raw_data">>

\* The body of the try block, statement by statement; the first statement
\* that raises ends it.
ExtractTry(response_data) ==
    LET data == PySubscript(response_data, "data") IN
    IF ~data.ok THEN ExceptKeyOrTypeError(data) ELSE
    LET res == PySubscript(data.v, "results") IN
    IF ~res.ok THEN ExceptKeyOrTypeError(res) ELSE
    LET results_ == res.v
        day_data == PyGet(results_, "day", EmptyDict) IN
    IF ~day_data.ok THEN ExceptKeyOrTypeError(day_data) ELSE
    LET volume == PyGet(day_data.v, "volume", DefaultNumber) IN
    IF ~volume.ok THEN ExceptKeyOrTypeError(volume) ELSE
    LET open_interest == PyGet(results_, "open_interest", DefaultNumber) IN
    IF ~open_interest.ok THEN ExceptKeyOrTypeError(open_interest) ELSE
    LET details == PyGet(results_, "details", EmptyDict) IN
    IF ~details.ok THEN ExceptKeyOrTypeError(details) ELSE
    LET contract_type == PyGet(details.v, "contract_type", DefaultString) IN
    IF ~contract_type.ok THEN ExceptKeyOrTypeError(contract_type) ELSE
    LET strike_price == PyGet(details.v, "strike_price", DefaultNumber)
        expiration_date == PyGet(details.v, "expiration_date", DefaultString)
        ticker == PyGet(details.v, "ticker", DefaultString)
        greeks == PyGet(results_, "greeks", EmptyDict) IN
    IF ~greeks.ok THEN ExceptKeyOrTypeError(greeks) ELSE
    LET delta == PyGet(greeks.v, "delta", DefaultNumber) IN
    IF ~delta.ok THEN ExceptKeyOrTypeError(delta) ELSE
    LET gamma == PyGet(greeks.v, "gamma", DefaultNumber)
        theta == PyGet(greeks.v, "theta", DefaultNumber)
        vega == PyGet(greeks.v, "vega", DefaultNumber)
        implied_volatility == PyGet(results_, "implied_volatility", DefaultNumber)
        underlying_asset == PyGet(results_, "underlying_asset", EmptyDict) IN
    IF ~underlying_asset.ok THEN ExceptKeyOrTypeError(underlying_asset) ELSE
    LET underlying_ticker == PyGet(underlying_asset.v, "ticker", DefaultString) IN
    IF ~underlying_ticker.ok THEN ExceptKeyOrTypeError(underlying_ticker) ELSE
    Returned(DictOf(MetricKeys,
        <<PyBool(TRUE), ticker.v, volume.v, open_interest.v, contract_type.v,
          strike_price.v, expiration_date.v, delta.v, gamma.v, theta.v,
          vega.v, implied_volatility.v, underlying_ticker.v, results_>>))

UnknownError == PyStr("Unknown error occurred")

\* A variant that reports every failure with the generic message.
extract_option_metrics_generic(response_data) ==
    IF ~Truthy(PyGet(response_data, "success", PyBool(FALSE)).v)
    THEN Returned(DictOf(<<"success", "error">>, <<PyBool(FALSE), UnknownError>>))
    ELSE ExtractTry(response_data)

extract_option_metrics(response_data) ==
    IF ~Truthy(PyGet(response_data, "success", PyBool(FALSE)).v)
    THEN Returned(DictOf(<<"success", "error">>,
            <<PyBool(FALSE), PyGet(response_data, "error", UnknownError).v>>))
    ELSE ExtractTry(response_data)

(***************************************************************************)
(* Response payloads handed to extract_option_metrics                      *)
(***************************************************************************)
\* A sub-object that is not a mapping (JSON null).
NotAMapping == PyNone

\* Every dict over a subset of keys, key k holding val[k].
SubDicts(keys, val) == {PyDict([k \in S |-> val[k]]) : S \in SUBSET keys}

DetailsVal ==
    [k \in {"ticker", "strike_price", "contract_type", "expiration_date"} |->
        CASE k = "ticker"          -> PyStr("O:SPY250307C00575000")
          [] k = "strike_price"    -> PyNum(575)
          [] k = "contract_type"   -> PyStr("call")
          [] k = "expiration_date" -> PyStr("2025-03-07")]

GreeksVal ==
    [k \in {"delta", "gamma", "theta", "vega"} |->
        CASE k = "delta" -> PyNum(52)
          [] k = "gamma" -> PyNum(3)
          [] k = "theta" -> PyNum(-14)
          [] k = "vega"  -> PyNum(21)]

DayChoices == {Absent, NotAMapping, EmptyDict,
               PyDict([k \in {"volume"} |-> PyNum(1500)])}
OpenInterestChoices == {Absent, PyNum(320)}
DetailsChoices == {Absent, NotAMapping} \cup SubDicts(DOMAIN DetailsVal, DetailsVal)
GreeksChoices == {Absent, NotAMapping} \cup SubDicts(DOMAIN GreeksVal, GreeksVal)
ImpliedVolChoices == {Absent, PyNum(27)}
UnderlyingChoices == {Absent, NotAMapping, EmptyDict,
                      PyDict([k \in {"ticker"} |-> PyStr("SPY")])}

ResultsKeys ==
    <<"day", "open_interest", "details", "greeks", "implied_volatility",
      "underlying_asset">>

\* results as a mapping, with every combination of absent, malformed and
\* present parts.
ResultsDicts ==
    {DictOf(ResultsKeys, <<d, oi, de, g, iv, ua>>) :
        d \in DayChoices, oi \in OpenInterestChoices, de \in DetailsChoices,
        g \in GreeksChoices, iv \in ImpliedVolChoices, ua \in UnderlyingChoices}

\* results of the wrong type.
ResultsMalformed == {PyNone, PyList, PyStr("NOT_FOUND"), PyNum(0)}

\* The "data" member: the provider's JSON body.
DataChoices ==
    {Absent, PyNone, PyList, PyStr("OK")}
    \cup {DictOf(<<"results", "status">>, <<r, PyStr("OK")>>) :
            r \in {Absent} \cup ResultsMalformed \cup ResultsDicts}

\* fetch_from_polygon's success dict around a body.
SuccessResponses ==
    {DictOf(<<"success", "data", "status_code">>, <<PyBool(TRUE), d, PyNum(200)>>) :
        d \in DataChoices}

\* fetch_from_polygon's failure dict, and dicts lacking "success" or "error".
FailureResponses ==
    {DictOf(<<"success", "error", "status_code", "data">>, <<s, e, c, d>>) :
        s \in {Absent, PyBool(FALSE)}, d \in {Absent, PyNone, EmptyDict},
        e \in {Absent, PyStr("404 Client Error: Not Found"),
               PyStr("HTTPSConnectionPool: Max retries exceeded")},
        c \in {Absent, PyNone, PyNum(404), PyNum(429), PyNum(500)}}

Responses == SuccessResponses \cup FailureResponses

(***************************************************************************)
(* Specification: extract_option_metrics applied to any response           *)
(***************************************************************************)
NotCalled == [kind |-> "none"]

InitExtract ==
    /\ rin \in Responses
    /\ rout = NotCalled
    /\ store = <<>> /\ last = Idle /\ pc = <<>> /\ loc = <<>>
    /\ whales = <<>> /\ idx = 0 /\ results = <<>> /\ bpc = "off"
    /\ sin = Idle /\ sout = NotCalled

Extract ==
    /\ rout = NotCalled
    /\ rout' = extract_option_metrics(rin)
    /\ UNCHANGED <<store, last, pc, loc, whales, idx, results, bpc, rin, sin, sout>>

NextExtract == Extract

SpecExtract == InitExtract /\ [][NextExtract]_vars

(***************************************************************************)
(* Properties of extract_option_metrics                                    *)
(***************************************************************************)
IsSuccessInput(rd) == HasKey(rd, "success") /\ rd.d["success"] = PyBool(TRUE)
IsFailureInput(rd) == HasKey(rd, "success") /\ rd.d["success"] = PyBool(FALSE)

HasResults(rd) == HasKey(rd, "data") /\ HasKey(rd.d["data"], "results")
ResultsOf(rd) == rd.d["data"].d["results"]

SubObjectKeys == {"day", "details", "greeks", "underlying_asset"}

\* Every sub-object that is present is a mapping.
SubObjectsAreMappings(r) ==
    \A k \in SubObjectKeys : HasKey(r, k) => r.d[k].t = "dict"

\* What the payload holds at results[sub][key], or dflt when any part of the
\* path is absent.
Nested(r, sub, key, dflt) ==
    IF HasKey(r, sub) /\ HasKey(r.d[sub], key) THEN r.d[sub].d[key] ELSE dflt

TopLevel(r, key, dflt) == IF HasKey(r, key) THEN r.d[key] ELSE dflt

IsFailureDict(v) ==
    v.t = "dict" /\ HasKey(v, "success") /\ v.d["success"] = PyBool(FALSE)
    /\ HasKey(v, "error")

\* C6: on a Success payload whose data.results is a mapping (its present
\* sub-objects being mappings too), extract_option_metrics returns a success
\* record in which every metric is the payload's value when the payload has
\* it, 0 when an absent metric is numeric and "" when it is a string, for
\* every subset of absent fields and sub-objects.
C6_TolerantDefaults ==
    (/\ rout # NotCalled
     /\ IsSuccessInput(rin) /\ HasResults(rin)
     /\ ResultsOf(rin).t = "dict" /\ SubObjectsAreMappings(ResultsOf(rin)))
    => /\ rout.kind = "return"
       /\ rout.value.t = "dict"
       /\ LET r == ResultsOf(rin)
              m == rout.value.d
          IN  /\ DOMAIN m = {MetricKeys[i] : i \in 1..Len(MetricKeys)}
              /\ m["success"] = PyBool(TRUE)
              /\ m["volume"] = Nested(r, "day", "volume", PyNum(0))
              /\ m["open_interest"] = TopLevel(r, "open_interest", PyNum(0))
              /\ m["symbol"] = Nested(r, "details", "ticker", PyStr(""))
              /\ m["contract_type"] = Nested(r, "details", "contract_type", PyStr(""))
              /\ m["strike_price"] = Nested(r, "details", "strike_price", PyNum(0))
              /\ m["expiration_date"] = Nested(r, "details", "expiration_date", PyStr(""))
              /\ m["delta"] = Nested(r, "greeks", "delta", PyNum(0))
              /\ m["gamma"] = Nested(r, "greeks", "gamma", PyNum(0))
              /\ m["theta"] = Nested(r, "greeks", "theta", PyNum(0))
              /\ m["vega"] = Nested(r, "greeks", "vega", PyNum(0))
              /\ m["implied_volatility"] = TopLevel(r, "implied_volatility", PyNum(0))
              /\ m["underlying_ticker"] = Nested(r, "underlying_asset", "ticker", PyStr(""))
              /\ m["raw_data"] = r

\* C6 witness: a payload without greeks and without details, but with a
\* day volume, was extracted: the greeks came out 0 and the volume as sent.
C6_Witness ==
    /\ rout # NotCalled /\ rout.kind = "return"
    /\ IsSuccessInput(rin) /\ HasResults(rin) /\ ResultsOf(rin).t = "dict"
    /\ ~HasKey(ResultsOf(rin), "greeks") /\ ~HasKey(ResultsOf(rin), "details")
    /\ Nested(ResultsOf(rin), "day", "volume", Absent) = PyNum(1500)
    /\ rout.value.d["success"] = PyBool(TRUE)
    /\ rout.value.d["delta"] = PyNum(0) /\ rout.value.d["vega"] = PyNum(0)
    /\ rout.value.d["symbol"] = PyStr("")
    /\ rout.value.d["volume"] = PyNum(1500)

\* A Success payload that is structurally malformed: no data, no results,
\* or something that is not a mapping where one is expected.
Malformed(rd) ==
    \/ ~HasKey(rd, "data")
    \/ rd.d["data"].t # "dict"
    \/ ~HasKey(rd.d["data"], "results")
    \/ ResultsOf(rd).t # "dict"
    \/ ~SubObjectsAreMappings(ResultsOf(rd))

ParseDetails ==
    {"'data'", "'results'", "not subscriptable by a string key"}

\* C7: on a structurally malformed Success payload extract_option_metrics
\* does not raise: it returns a failure whose message begins with
\* "Error parsing response: ".
C7_MalformedIsFailure ==
    (rout # NotCalled /\ IsSuccessInput(rin) /\ Malformed(rin))
    => /\ rout.kind = "return"
       /\ IsFailureDict(rout.value)
       /\ \E d \in ParseDetails :
            rout.value.d["error"] = PyStr(ParseErrorPrefix \o d)

\* C8 as claimed: a Failure input comes back with the identical error
\* message and the identical status code.
C8_IdentityPassThrough ==
    (rout # NotCalled /\ IsFailureInput(rin)
        /\ HasKey(rin, "error") /\ HasKey(rin, "status_code"))
    => /\ rout.kind = "return"
       /\ IsFailureDict(rout.value)
       /\ rout.value.d["error"] = rin.d["error"]
       /\ HasKey(rout.value, "status_code")
       /\ rout.value.d["status_code"] = rin.d["status_code"]

\* C8 amended: a Failure input comes back as a failure holding exactly the
\* success flag and the identical error message; the status code is not
\* carried over, and nothing of a payload is read.
C8_MessagePassThrough ==
    (rout # NotCalled /\ IsFailureInput(rin) /\ HasKey(rin, "error"))
    => /\ rout.kind = "return"
       /\ rout.value.t = "dict"
       /\ DOMAIN rout.value.d = {"success", "error"}
       /\ rout.value.d["success"] = PyBool(FALSE)
       /\ rout.value.d["error"] = rin.d["error"]

\* C8 witness: a failure carrying HTTP status 404 went through.
C8_Witness ==
    /\ rout # NotCalled /\ rout.kind = "return"
    /\ IsFailureInput(rin)
    /\ HasKey(rin, "status_code") /\ rin.d["status_code"] = PyNum(404)
    /\ HasKey(rin, "error")
    /\ rout.value.d["error"] = PyStr("404 Client Error: Not Found")

(***************************************************************************)
(* fetchData.build_option_symbol                                           *)
(*                                                                         *)
(* Strings are sequences of characters.  A strike is a whole number of     *)
(* sixteenths (strike = n/16): such a float and its product with 1000 are  *)
(* exact in binary floating point, and the product, 62.5 * n, has a        *)
(* fractional half exactly when n is odd, which is where the rounding of   *)
(* the .0f format shows.                                                   *)
(***************************************************************************)
DigitChars == <<"0", "1", "2", "3", "4", "5", "6", "7", "8", "9">>
IsDigit(c) == \E i \in 1..10 : DigitChars[i] = c
DigitVal(c) == (CHOOSE i \in 1..10 : DigitChars[i] = c) - 1
AllDigits(s) == \A i \in 1..Len(s) : IsDigit(s[i])

\* int(s) of a string of digits.
RECURSIVE NumOf(_)
NumOf(s) ==
    IF s = <<>> THEN 0
    ELSE 10 * NumOf(SubSeq(s, 1, Len(s) - 1)) + DigitVal(s[Len(s)])

\* The decimal digits of n >= 0.
RECURSIVE DigitsOf(_)
DigitsOf(n) ==
    IF n < 10 THEN <<DigitChars[n + 1]>>
    ELSE DigitsOf(n \div 10) \o <<DigitChars[(n % 10) + 1]>>

RECURSIVE Zeros(_)
Zeros(k) == IF k <= 0 THEN <<>> ELSE <<"0">> \o Zeros(k - 1)

\* n >= 0 in at least w digits, zero-padded on the left.
ZeroPad(n, w) == LET d == DigitsOf(n) IN Zeros(w - Len(d)) \o d

IsLeap(y) == (y % 4 = 0 /\ y % 100 # 0) \/ y % 400 = 0

DaysInMonth(y, m) ==
    CASE m \in {4, 6, 9, 11} -> 30
      [] m = 2 -> IF IsLeap(y) THEN 29 ELSE 28
      [] OTHER -> 31

\* datetime.strptime(s, "%Y-%m-%d"): the format's pattern is four digits,
\* "-", a month 1..12 in one or two digits, "-", a day 1..31 in one or two
\* digits (or a space and one digit), and the whole string must be used up;
\* then the date must exist.  Anything else is a ValueError.
strptime(s) ==
    LET dashes == {i \in 1..Len(s) : s[i] = "-"} IN
    IF Cardinality(dashes) # 2 THEN Raise("ValueError", "does not match format") ELSE
    LET p1 == CHOOSE i \in dashes : \A j \in dashes : i <= j
        p2 == CHOOSE i \in dashes : \A j \in dashes : i >= j
        ys == SubSeq(s, 1, p1 - 1)
        ms == SubSeq(s, p1 + 1, p2 - 1)
        ds0 == SubSeq(s, p2 + 1, Len(s))
        ds == IF Len(ds0) = 2 /\ ds0[1] = " " THEN <<ds0[2]>> ELSE ds0
        shapeOk ==
            /\ Len(ys) = 4 /\ AllDigits(ys)
            /\ Len(ms) \in {1, 2} /\ AllDigits(ms) /\ NumOf(ms) \in 1..12
            /\ Len(ds) \in {1, 2} /\ AllDigits(ds) /\ NumOf(ds) \in 1..31
            /\ (Len(ds0) = 2 /\ ds0[1] = " ") => ds0[2] # "0"
    IN  IF ~shapeOk THEN Raise("ValueError", "does not match format")
        ELSE IF NumOf(ys) < 1 \/ NumOf(ds) > DaysInMonth(NumOf(ys), NumOf(ms))
        THEN Raise("ValueError", "out of range")
        ELSE Val([year |-> NumOf(ys), month |-> NumOf(ms), day |-> NumOf(ds)])

\* exp_date.strftime("%y%m%d")
strftime(dt) == ZeroPad(dt.year % 100, 2) \o ZeroPad(dt.month, 2) \o ZeroPad(dt.day, 2)

UpperChars ==
    <<"A", "B", "C", "D", "E", "F", "G", "H", "I", "J", "K", "L", "M",
      "N", "O", "P", "Q", "R", "S", "T", "U", "V", "W", "X", "Y", "Z">>
LowerChars ==
    <<"a", "b", "c", "d", "e", "f", "g", "h", "i", "j", "k", "l", "m",
      "n", "o", "p", "q", "r", "s", "t", "u", "v", "w", "x", "y", "z">>

LowerChar(c) ==
    IF \E i \in 1..26 : UpperChars[i] = c
    THEN LowerChars[CHOOSE i \in 1..26 : UpperChars[i] = c]
    ELSE c

\* s.lower()
Lower(s) == [i \in 1..Len(s) |-> LowerChar(s[i])]

\* "C" if option_type.lower() == "call" else "P"
OptType(option_type) ==
    IF Lower(option_type) = <<"c", "a", "l", "l">> THEN <<"C">> ELSE <<"P">>

Abs(x) == IF x < 0 THEN -x ELSE x

\* num/2 for num >= 0, rounded to the nearest integer, a tie going to the
\* even one (what the f format does with an exact half).
RoundHalfEven2(num) ==
    LET q == num \div 2
    IN  IF num % 2 = 0 THEN q ELSE IF q % 2 = 0 THEN q ELSE q + 1

\* f"{float(strike) * 1000:08.0f}" for strike = n16/16: the rounded product,
\* a "-" first when negative, zero-filled to a minimum width of 8 characters
\* (the sign counts), never cut when longer.
FormatStrikeTruncating(n16) ==
    LET r == (125 * Abs(n16)) \div 2
    IN  IF n16 < 0 /\ r > 0 THEN <<"-">> \o ZeroPad(r, 7) ELSE ZeroPad(r, 8)
FormatStrike(n16) ==
    LET r == RoundHalfEven2(125 * Abs(n16))
    IN  IF n16 < 0 /\ r > 0 THEN <<"-">> \o ZeroPad(r, 7) ELSE ZeroPad(r, 8)

build_option_symbol(ticker, expiration_date, option_type, strike) ==
    LET exp_date == strptime(expiration_date) IN
    IF ~exp_date.ok THEN Raised(exp_date.exc)
    ELSE Returned(<<"O", ":">> \o ticker \o strftime(exp_date.v)
                  \o OptType(option_type) \o FormatStrike(strike))

(***************************************************************************)
(* Specification: build_option_symbol applied to any arguments             *)
(***************************************************************************)
Tickers == {<<"S", "P", "Y">>, <<"F">>, <<"B", "R", "K", "B">>}

YearStrings ==
    {<<"2", "0", "2", "5">>, <<"2", "0", "2", "4">>, <<"1", "9", "9", "9">>,
     <<"2", "1", "0", "0">>, <<"0", "0", "0", "0">>, <<"2", "5">>}
MonthStrings == {<<"0", "3">>, <<"3">>, <<"0", "2">>, <<"1", "2">>, <<"1", "3">>, <<"0", "0">>}
DayStrings ==
    {<<"0", "7">>, <<"7">>, <<" ", "7">>, <<"2", "9">>, <<"3", "1">>,
     <<"3", "2">>, <<"0", "0">>}

\* Expiration strings: year-month-day in several spellings, dates that do
\* not exist, and strings of another shape.
ExpirationStrings ==
    {y \o <<"-">> \o m \o <<"-">> \o d :
        y \in YearStrings, m \in MonthStrings, d \in DayStrings}
    \cup {<<>>,
          <<"0", "3", "/", "0", "7", "/", "2", "0", "2", "5">>,
          <<"2", "0", "2", "5", "-", "0", "3", "-", "0", "7", "T">>,
          <<"2", "0", "2", "5", "0", "3", "0", "7">>}

OptionTypes ==
    {<<"c", "a", "l", "l">>, <<"C", "A", "L", "L">>, <<"C", "a", "l", "l">>,
     <<"p", "u", "t">>, <<"P", "U", "T">>, <<>>, <<"c", "a", "l", "l", "s">>,
     <<"a", "n", "y", "t", "h", "i", "n", "g", "-", "e", "l", "s", "e">>}

\* Strikes in sixteenths: 0, 0.0625, 0.1875, 0.3125, 0.5, 575, 575.5,
\* 99999.9375, 100000, 100000.0625, -1, -575.
Strikes16 == {0, 1, 3, 5, 8, 9200, 9208, 1599999, 1600000, 1600001, -16, -9200}

InitSymbol ==
    /\ sin \in [ticker : Tickers, expiration_date : ExpirationStrings,
                option_type : OptionTypes, strike : Strikes16]
    /\ sout = NotCalled
    /\ store = <<>> /\ last = Idle /\ pc = <<>> /\ loc = <<>>
    /\ whales = <<>> /\ idx = 0 /\ results = <<>> /\ bpc = "off"
    /\ rin = Idle /\ rout = NotCalled

BuildSymbol ==
    /\ sin # Idle /\ sout = NotCalled
    /\ sout' = build_option_symbol(sin.ticker, sin.expiration_date,
                                   sin.option_type, sin.strike)
    /\ UNCHANGED <<store, last, pc, loc, whales, idx, results, bpc, rin, rout, sin>>

NextSymbol == BuildSymbol

SpecSymbol == InitSymbol /\ [][NextSymbol]_vars

(***************************************************************************)
(* Properties of build_option_symbol                                       *)
(***************************************************************************)
\* The sixteen spellings of "call" that lower-case to it.
CallSpellings ==
    {<<a, b, c, d>> : a \in {"c", "C"}, b \in {"a", "A"},
                      c \in {"l", "L"}, d \in {"l", "L"}}

\* r is 1000 * n16/16 rounded to the nearest integer, a tie to the even one.
IsRoundedThousandths(r, n16) ==
    /\ 2 * r - 125 * n16 \in {-1, 0, 1}
    /\ (2 * r # 125 * n16) => r % 2 = 0

\* The symbol out is "O:" ticker YYMMDD T S for the date dt, with S eight
\* digits.
IsOccSymbol(out, ticker, dt, option_type, n16) ==
    LET L == Len(ticker) IN
    /\ Len(out) = 2 + L + 6 + 1 + 8
    /\ out[1] = "O" /\ out[2] = ":"
    /\ SubSeq(out, 3, 2 + L) = ticker
    /\ AllDigits(SubSeq(out, L + 3, L + 8))
    /\ NumOf(SubSeq(out, L + 3, L + 4)) = dt.year % 100
    /\ NumOf(SubSeq(out, L + 5, L + 6)) = dt.month
    /\ NumOf(SubSeq(out, L + 7, L + 8)) = dt.day
    /\ out[L + 9] \in {"C", "P"}
    /\ out[L + 9] = "C" <=> option_type \in CallSpellings
    /\ AllDigits(SubSeq(out, L + 10, L + 17))
    /\ IsRoundedThousandths(NumOf(SubSeq(out, L + 10, L + 17)), n16)

\* C9 as claimed: for every ticker, parseable expiration, option type and
\* strike the result is "O:" ticker YYMMDD T S with S exactly eight digits
\* holding the strike times 1000.
C9_SymbolForEveryStrike ==
    (sout # NotCalled /\ strptime(sin.expiration_date).ok)
    => /\ sout.kind = "return"
       /\ IsOccSymbol(sout.value, sin.ticker, strptime(sin.expiration_date).v,
                      sin.option_type, sin.strike)

\* The strikes whose thousandths fit eight digits: 0 <= strike < 100000
\* (up to the rounding at the upper end).
StrikeFits(n16) == n16 >= 0 /\ RoundHalfEven2(125 * Abs(n16)) < 100000000

\* C9 amended: the same, for every strike that is not negative and whose
\* thousandths, rounded to the nearest integer, are below 10^8.
C9_SymbolForFittingStrike ==
    (sout # NotCalled /\ strptime(sin.expiration_date).ok /\ StrikeFits(sin.strike))
    => /\ sout.kind = "return"
       /\ IsOccSymbol(sout.value, sin.ticker, strptime(sin.expiration_date).v,
                      sin.option_type, sin.strike)

\* C9 witness: ("SPY", "2025-03-07", "call", 575.0) gave O:SPY250307C00575000.
C9_Witness ==
    /\ sin # Idle
    /\ sin.ticker = <<"S", "P", "Y">>
    /\ sin.expiration_date = <<"2", "0", "2", "5", "-", "0", "3", "-", "0", "7">>
    /\ sin.option_type = <<"c", "a", "l", "l">>
    /\ sin.strike = 9200
    /\ sout = Returned(<<"O", ":", "S", "P", "Y", "2", "5", "0", "3", "0", "7",
                         "C", "0", "0", "5", "7", "5", "0", "0", "0">>)

(***************************************************************************)
(* dbUtils.save_option_data_to_table on app_tables.todaysdata              *)
(*                                                                         *)
(* The table is the sequence of its rows; a row, once added, keeps its     *)
(* place (the code never deletes), so a row object is its index.           *)
(***************************************************************************)
NoRow == 0

\* The rows whose tradeID column is trade_id.
Matching(table, trade_id) == {i \in 1..Len(table) : table[i].tradeID = trade_id}

\* A lookup that never finds the row.
TableGetBlind(table, trade_id) == Val(NoRow)

\* app_tables.todaysdata.get(tradeID=trade_id): the one matching row, None
\* without a match, and an exception when several rows match.
TableGet(table, trade_id) ==
    LET m == Matching(table, trade_id) IN
    IF m = {} THEN Val(NoRow)
    ELSE IF Cardinality(m) = 1 THEN Val(CHOOSE i \in m : TRUE)
    ELSE Raise("TableError", "More than one row matched this query")

\* An update that writes the metrics and leaves the contract columns alone.
RowUpdateMetricsOnly(table, i, ticker, strike, side, expiration, volume, openInterest) ==
    [table EXCEPT ![i] = [@ EXCEPT !.volume = volume, !.openInterest = openInterest]]

\* existing_record.update(ticker=..., ..., openInterest=...)
RowUpdate(table, i, ticker, strike, side, expiration, volume, openInterest) ==
    [table EXCEPT ![i] =
        [@ EXCEPT !.ticker = ticker, !.strike = strike, !.side = side,
                  !.expiration = expiration, !.volume = volume,
                  !.openInterest = openInterest]]

NewRow(trade_id, ticker, strike, side, expiration, volume, openInterest) ==
    [tradeID |-> trade_id, ticker |-> ticker, strike |-> strike, side |-> side,
     expiration |-> expiration, volume |-> volume, openInterest |-> openInterest]

\* An insert under a unique key: it replaces the row of the same tradeID.
AddRowUnique(table, row) ==
    IF Matching(table, row.tradeID) = {} THEN Append(table, row)
    ELSE [i \in 1..Len(table) |->
            IF table[i].tradeID = row.tradeID THEN row ELSE table[i]]

\* app_tables.todaysdata.add_row(...): the table has no unique key.
AddRow(table, row) == Append(table, row)

\* The write half of the upsert, given what the lookup returned: the
\* keyword arguments are evaluated first (option_data['volume'] and
\* option_data['open_interest'] raise KeyError on a dict without them), then
\* the row is updated or added.  Returns the table and the function's result;
\* every exception ends in "return False" with the table as it was.
WriteRecord(table, existing_record, a) ==
    LET volume == PySubscript(a.option_data, "volume")
        open_interest == PySubscript(a.option_data, "open_interest")
    IN  IF ~volume.ok \/ ~open_interest.ok
        THEN [table |-> table, ret |-> FALSE]
        ELSE IF existing_record # NoRow
        THEN [table |-> RowUpdate(table, existing_record, a.ticker, a.strike,
                                  a.side, a.expiration, volume.v, open_interest.v),
              ret |-> TRUE]
        ELSE [table |-> AddRow(table, NewRow(a.trade_id, a.ticker, a.strike,
                                  a.side, a.expiration, volume.v, open_interest.v)),
              ret |-> TRUE]

\* The whole function, run without interruption.
save_option_data_to_table(table, a) ==
    LET existing_record == TableGet(table, a.trade_id) IN
    IF ~existing_record.ok THEN [table |-> table, ret |-> FALSE]
    ELSE WriteRecord(table, existing_record.v, a)

(***************************************************************************)
(* Specification: upserts one after another                                *)
(***************************************************************************)
TradeIds == {"T100", "T200"}

\* option_data: the dict extract_option_metrics returned.  A success record
\* holds volume and open_interest; a failure dict holds neither.
Metrics == {<<1500, 320>>, <<1800, 410>>, <<1500, 410>>, <<0, 0>>}

OptionDatas ==
    {DictOf(<<"success", "volume", "open_interest">>,
            <<PyBool(TRUE), PyNum(m[1]), PyNum(m[2])>>) : m \in Metrics}
    \cup {DictOf(<<"success", "error">>, <<PyBool(FALSE), UnknownError>>)}

\* ticker, strike, side, expiration: two contracts that differ in every
\* column and two that share columns with both.
Contracts ==
    {<<"SPY", 575, "C", "2025-03-07">>, <<"QQQ", 480, "P", "2025-06-20">>,
     <<"SPY", 480, "C", "2025-06-20">>, <<"QQQ", 575, "P", "2025-03-07">>}

UpsertArgs ==
    {[trade_id |-> t, ticker |-> c[1], strike |-> c[2], side |-> c[3],
      expiration |-> c[4], option_data |-> od] :
        t \in TradeIds, c \in Contracts, od \in OptionDatas}

\* How the row found by the lookup compares with the call's values.
Prior(table, a) ==
    LET m == Matching(table, a.trade_id) IN
    IF m = {} \/ ~HasKey(a.option_data, "volume") THEN "none"
    ELSE LET r == table[CHOOSE i \in m : TRUE] IN
         IF /\ r.ticker # a.ticker /\ r.strike # a.strike /\ r.side # a.side
            /\ r.expiration # a.expiration
            /\ r.volume # a.option_data.d["volume"]
            /\ r.openInterest # a.option_data.d["open_interest"]
         THEN "differs in every field"
         ELSE "shares a field"

InitStore ==
    /\ store = <<>> /\ last = Idle
    /\ pc = <<>> /\ loc = <<>>
    /\ whales = <<>> /\ idx = 0 /\ results = <<>> /\ bpc = "off"
    /\ rin = Idle /\ rout = NotCalled /\ sin = Idle /\ sout = NotCalled

Upsert(a) ==
    LET out == save_option_data_to_table(store, a) IN
    /\ store' = out.table
    /\ last' = [t |-> "call", call |-> a, ret |-> out.ret, prior |-> Prior(store, a)]
    /\ UNCHANGED <<pc, loc, whales, idx, results, bpc, rin, rout, sin, sout>>

NextStore == \E a \in UpsertArgs : Upsert(a)

Spec == InitStore /\ [][NextStore]_vars

(***************************************************************************)
(* Properties of the upsert run sequentially                               *)
(***************************************************************************)
RowsOf(table, trade_id) == SelectSeq(table, LAMBDA r : r.tradeID = trade_id)
RowsOfOthers(table, trade_id) == SelectSeq(table, LAMBDA r : r.tradeID # trade_id)

\* The row a call is to leave behind.
RowFor(a) ==
    [tradeID |-> a.trade_id, ticker |-> a.ticker, strike |-> a.strike,
     side |-> a.side, expiration |-> a.expiration,
     volume |-> a.option_data.d["volume"],
     openInterest |-> a.option_data.d["open_interest"]]

\* C1: with upserts run one after another from a table without duplicate
\* tradeIDs, the table holds at most one row per tradeID in every state, and
\* an upsert for a tradeID that has a row adds no row.
C1_OneRowPerTradeId ==
    /\ [](\A t \in TradeIds : Len(RowsOf(store, t)) <= 1)
    /\ [][Len(RowsOf(store, last'.call.trade_id)) >= 1
            => Len(store') = Len(store)]_vars

\* C1 witness: an upsert has run for a tradeID that had a row, and the table
\* holds one row for it beside the row of another tradeID.
C1_Witness ==
    /\ last # Idle /\ last.ret /\ last.prior # "none"
    /\ Len(RowsOf(store, last.call.trade_id)) = 1
    /\ Len(store) = 2

\* C2: an upsert that carries volume and open interest leaves exactly one
\* row for its tradeID, holding the call's value in every column, whatever
\* the row held before, and leaves the rows of other tradeIDs as they were.
C2_LastWriteWins ==
    [][HasKey(last'.call.option_data, "volume")
        => LET a == last'.call IN
           /\ last'.ret
           /\ RowsOf(store', a.trade_id) = <<RowFor(a)>>
           /\ RowsOfOthers(store', a.trade_id) = RowsOfOthers(store, a.trade_id)]_vars

\* C2 witness: the second of two upserts for one tradeID has run, with a
\* different value in every column, beside the row of another tradeID; the
\* row holds the second call's values.
C2_Witness ==
    /\ last # Idle /\ last.ret /\ last.prior = "differs in every field"
    /\ RowsOf(store, last.call.trade_id) = <<RowFor(last.call)>>
    /\ Len(store) = 2

(***************************************************************************)
(* Specification: two runs calling the upsert at the same time             *)
(*                                                                         *)
(* The function makes two calls on the table, the lookup and the write;    *)
(* each is one step, and the steps of the two callers interleave.          *)
(***************************************************************************)
Callers == {"run1", "run2"}

MaxCallsPerRun == 2

RaceArgs ==
    {a \in UpsertArgs :
        /\ <<a.ticker, a.strike, a.side, a.expiration>>
              \in {<<"SPY", 575, "C", "2025-03-07">>, <<"QQQ", 480, "P", "2025-06-20">>}
        /\ a.option_data \in
              {DictOf(<<"success", "volume", "open_interest">>,
                      <<PyBool(TRUE), PyNum(1500), PyNum(320)>>),
               DictOf(<<"success", "error">>, <<PyBool(FALSE), UnknownError>>)}}

InitRace ==
    /\ store = <<>> /\ last = Idle
    /\ pc = [p \in Callers |-> "idle"]
    /\ loc = [p \in Callers |-> [calls |-> 0]]
    /\ whales = <<>> /\ idx = 0 /\ results = <<>> /\ bpc = "off"
    /\ rin = Idle /\ rout = NotCalled /\ sin = Idle /\ sout = NotCalled

\* A caller enters save_option_data_to_table.
Call(p, a) ==
    /\ pc[p] \in {"idle", "done"}
    /\ loc[p].calls < MaxCallsPerRun
    /\ pc' = [pc EXCEPT ![p] = "lookup"]
    /\ loc' = [loc EXCEPT ![p] = [calls |-> loc[p].calls + 1, call |-> a]]
    /\ UNCHANGED <<store, last, whales, idx, results, bpc, rin, rout, sin, sout>>

\* existing_record = app_tables.todaysdata.get(tradeID=trade_id)
Lookup(p) ==
    /\ pc[p] = "lookup"
    /\ LET r == TableGet(store, loc[p].call.trade_id) IN
       IF r.ok
       THEN /\ pc' = [pc EXCEPT ![p] = "write"]
            /\ loc' = [loc EXCEPT ![p] =
                  [calls |-> @.calls, call |-> @.call, existing_record |-> r.v]]
       ELSE /\ pc' = [pc EXCEPT ![p] = "done"]
            /\ loc' = [loc EXCEPT ![p] =
                  [calls |-> @.calls, call |-> @.call, ret |-> FALSE]]
    /\ UNCHANGED <<store, last, whales, idx, results, bpc, rin, rout, sin, sout>>

\* existing_record.update(...) or app_tables.todaysdata.add_row(...), and
\* the return.
Write(p) ==
    /\ pc[p] = "write"
    /\ LET out == WriteRecord(store, loc[p].existing_record, loc[p].call) IN
       /\ store' = out.table
       /\ loc' = [loc EXCEPT ![p] =
             [calls |-> @.calls, call |-> @.call,
              existing_record |-> @.existing_record, ret |-> out.ret]]
    /\ pc' = [pc EXCEPT ![p] = "done"]
    /\ UNCHANGED <<last, whales, idx, results, bpc, rin, rout, sin, sout>>

NextRace ==
    \E p \in Callers :
        \/ \E a \in RaceArgs : Call(p, a)
        \/ Lookup(p)
        \/ Write(p)

SpecRace == InitRace /\ [][NextRace]_vars

\* The caller's call is over, returned True, and its lookup had found no row.
InsertedBlind(p) ==
    /\ pc[p] = "done" /\ loc[p].ret
    /\ loc[p].existing_record = NoRow

\* C10: when two invocations for the same tradeID have both looked up before
\* either wrote (both lookups found no row), both take the insert branch and
\* the table ends with two rows for that tradeID.
C10_RaceMakesDuplicates ==
    \A p \in Callers, q \in Callers :
        (/\ p # q /\ InsertedBlind(p) /\ InsertedBlind(q)
         /\ loc[p].call.trade_id = loc[q].call.trade_id)
        => Len(RowsOf(store, loc[p].call.trade_id)) = 2

\* C10 witness: both callers were between lookup and write for the same
\* tradeID, and now the table holds two rows for it.
C10_Witness ==
    /\ InsertedBlind("run1") /\ InsertedBlind("run2")
    /\ loc["run1"].call.trade_id = "T100" /\ loc["run2"].call.trade_id = "T100"
    /\ Len(RowsOf(store, "T100")) = 2

(***************************************************************************)
(* main.get_all_contract_data and fetchData.get_option_data                *)
(***************************************************************************)
\* fetch_from_polygon(option_symbol): whatever the provider and the network
\* make of the request; it returns a success or failure dict and raises
\* nothing (RequestException is caught).
GreeksNull ==
    DictOf(<<"results">>,
           <<DictOf(<<"day", "open_interest", "greeks">>,
                    <<PyDict([k \in {"volume"} |-> PyNum(1500)]), PyNum(320),
                      PyDict([k \in {"delta"} |-> PyNone])>>)>>)

FullBody ==
    DictOf(<<"results">>,
           <<DictOf(ResultsKeys,
                    <<PyDict([k \in {"volume"} |-> PyNum(1500)]), PyNum(320),
                      PyDict(DetailsVal), PyDict(GreeksVal), PyNum(27),
                      PyDict([k \in {"ticker"} |-> PyStr("SPY")])>>)>>)

NoGreeksBody ==
    DictOf(<<"results">>,
           <<DictOf(<<"day", "open_interest">>,
                    <<PyDict([k \in {"volume"} |-> PyNum(1800)]), PyNum(410)>>)>>)

fetch_from_polygon(option_symbol) ==
    {DictOf(<<"success", "data", "status_code">>, <<PyBool(TRUE), d, PyNum(200)>>) :
        d \in {FullBody, NoGreeksBody, GreeksNull, EmptyDict,
               DictOf(<<"results">>, <<PyNone>>)}}
    \cup {DictOf(<<"success", "error", "status_code">>,
                 <<PyBool(FALSE), PyStr("404 Client Error: Not Found"), PyNum(404)>>)}

\* get_option_data with the provider's answer resp: nothing is caught here,
\* so an exception of build_option_symbol or extract_option_metrics leaves
\* the function.
get_option_data(ticker, strike, option_type, expiration_date, resp) ==
    LET option_symbol == build_option_symbol(ticker, expiration_date, option_type, strike)
    IN  IF option_symbol.kind = "raise" THEN option_symbol
        ELSE extract_option_metrics(resp)

\* f"{v:.4f}": a number formats; a string gives ValueError, None and the
\* rest TypeError.
FormatFloat(v) ==
    CASE v.t \in {"num", "bool"} -> Val(v)
      [] v.t = "str" -> Raise("ValueError", "Unknown format code 'f'")
      [] OTHER -> Raise("TypeError", "unsupported format string")

PrintedKeys == <<"delta", "gamma", "theta", "vega", "implied_volatility">>

\* The body of the for loop for one whale: the option data to append, or the
\* exception that leaves the loop and the function.
LoopBody(whale, resp) ==
    LET option_type == IF whale.side = "C" THEN <<"c", "a", "l", "l">>
                       ELSE <<"p", "u", "t">>
        got == get_option_data(whale.ticker, whale.strike, option_type,
                               whale.expiration, resp)
    IN  IF got.kind = "raise" THEN got ELSE
        LET option_data == DictSet(got.value, "tradeID", PyNum(whale.tradeID))
            bad == {i \in 1..Len(PrintedKeys) :
                      ~FormatFloat(option_data.d[PrintedKeys[i]]).ok}
        IN  IF Truthy(option_data.d["success"]) /\ bad # {}
            THEN Raised(FormatFloat(option_data.d[PrintedKeys[
                            CHOOSE i \in bad : \A j \in bad : i <= j]]).exc)
            ELSE Returned(option_data)

MaxWhales == 3

WhaleContracts ==
    {[ticker |-> <<"S", "P", "Y">>, strike |-> 9200, side |-> "C",
      expiration |-> <<"2", "0", "2", "5", "-", "0", "3", "-", "0", "7">>],
     [ticker |-> <<"F">>, strike |-> 200, side |-> "P",
      expiration |-> <<"2", "0", "2", "5", "-", "6", "-", "2", "0">>],
     [ticker |-> <<"S", "P", "Y">>, strike |-> 9200, side |-> "C",
      expiration |-> <<"0", "3", "/", "0", "7", "/", "2", "0", "2", "5">>]}

\* The whales table: up to MaxWhales rows, row i with tradeID 100 * i.
Watchlists ==
    UNION {{[i \in 1..n |->
                [tradeID |-> 100 * i, ticker |-> c[i].ticker, strike |-> c[i].strike,
                 side |-> c[i].side, expiration |-> c[i].expiration]] :
            c \in [1..n -> WhaleContracts]} : n \in 0..MaxWhales}

Exceptions == {"ValueError", "AttributeError", "TypeError"}

InitBatch ==
    /\ whales \in Watchlists
    /\ idx = 1 /\ results = <<>> /\ bpc = "loop"
    /\ store = <<>> /\ last = Idle /\ pc = <<>> /\ loc = <<>>
    /\ rin = Idle /\ rout = NotCalled /\ sin = Idle /\ sout = NotCalled

\* One pass of "for whale in all_whales".
Iterate ==
    /\ bpc = "loop" /\ idx <= Len(whales)
    /\ \E resp \in fetch_from_polygon(whales[idx]) :
         LET out == LoopBody(whales[idx], resp) IN
         IF out.kind = "raise"
         THEN bpc' = out.exc /\ UNCHANGED <<idx, results>>
         ELSE /\ results' = Append(results, out.value)
              /\ idx' = idx + 1
              /\ UNCHANGED bpc
    /\ UNCHANGED <<store, last, pc, loc, whales, rin, rout, sin, sout>>

\* return results
Return ==
    /\ bpc = "loop" /\ idx > Len(whales)
    /\ bpc' = "done"
    /\ UNCHANGED <<store, last, pc, loc, whales, idx, results, rin, rout, sin, sout>>

NextBatch == Iterate \/ Return

SpecBatch == InitBatch /\ [][NextBatch]_vars

(***************************************************************************)
(* Properties of the batch run                                             *)
(***************************************************************************)
IsSuccessDict(v) == HasKey(v, "success") /\ v.d["success"] = PyBool(TRUE)

\* C3: when the run has finished, the snapshot table holds, for every entry
\* whose fetch succeeded, a row with that entry's tradeID and the extracted
\* volume and open interest.
C3_SuccessIsStored ==
    bpc = "done" =>
        \A i \in 1..Len(results) :
            IsSuccessDict(results[i]) =>
                \E j \in 1..Len(store) :
                    /\ store[j].tradeID = whales[i].tradeID
                    /\ store[j].volume = results[i].d["volume"]
                    /\ store[j].openInterest = results[i].d["open_interest"]

\* C4: a run over N entries never stops early: no exception leaves the
\* loop, every outcome so far is tagged with its entry's tradeID in watchlist
\* order, and the returned sequence has exactly N outcomes.
C4_EveryEntryReported ==
    /\ bpc \notin Exceptions
    /\ Len(results) <= Len(whales)
    /\ \A i \in 1..Len(results) : results[i].d["tradeID"] = PyNum(whales[i].tradeID)
    /\ bpc = "done" => Len(results) = Len(whales)

\* C5: an entry whose expiration does not parse as YYYY-MM-DD is reported as
\* a failure for that entry, and the run goes on: no exception leaves the
\* loop at such an entry.
C5_BadDateIsAFailure ==
    /\ \A i \in 1..Len(results) :
          ~strptime(whales[i].expiration).ok => IsFailureDict(results[i])
    /\ (bpc \in Exceptions) => strptime(whales[idx].expiration).ok

====
